---- MODULE Spec2Model ----
(***************************************************************************)
(* SelectionOrderedSet (src/src/dock.js, lines 607-911): an ordered set    *)
(* with one selected entry, transactional dispatch of the bulk events and  *)
(* automatic removal of entries that announce their own destruction.       *)
(*                                                                         *)
(* Every public call is one atomic step (the program is synchronous and    *)
(* single threaded).  The body of an explicit set.transact(fn) call is     *)
(* caller code, so that call is split in two steps, TransactBegin and      *)
(* TransactEnd, with the caller's open transact frames kept in `stack`.    *)
(* The operations are operators from a state record to a state record;    *)
(* field `threw` tells that the call ended with an exception.              *)
(***************************************************************************)
EXTENDS Integers, Sequences, FiniteSets, TLC

\* ------------------------------------------------------------------ bounds
\* transactionDepth never exceeds this (open transact(fn) frames of the caller
\* plus the increments that calls ended by an exception have left behind)
MaxDepth == 1

\* entryDisposables of one usingEachEntry subscription a single entry may
\* have at a time
MaxUses == 1

\* ------------------------------------------------------- entries and values
\* JavaScript's undefined (entries[i] out of range, fields never assigned)
Undefined == "undefined"

\* "a" is a plain value, "b" and "c" are Destructables (onDidDestroy, and a
\* destroy() that emits the entry's did-destroy signal)
Entries == {"a", "b", "c"}
HasOnDidDestroy == {"b", "c"}
HasDestroy == {"b", "c"}

\* index arguments tried by the callers, in and out of range
Indices == (0 - 1) .. Cardinality(Entries)

Min(x, y) == IF x < y THEN x ELSE y
Max(x, y) == IF x > y THEN x ELSE y

\* Array.prototype[i]: undefined outside 0 .. length-1
At(arr, i) == IF i >= 0 /\ i < Len(arr) THEN arr[i + 1] ELSE Undefined

\* the start position Array.prototype.splice computes from its first argument
SpliceStart(arr, index) ==
  IF index < 0 THEN Max(Len(arr) + index, 0) ELSE Min(index, Len(arr))

\* mutant of SpliceInsert: the elements behind the new one come out reversed
SpliceInsertReversesTail(arr, index, entry) ==
  LET start == SpliceStart(arr, index)
      n == Len(arr) - start
  IN SubSeq(arr, 1, start) \o <<entry>> \o [i \in 1..n |-> arr[Len(arr) + 1 - i]]

\* arr.splice(index, 0, entry)
SpliceInsert(arr, index, entry) ==
  LET start == SpliceStart(arr, index)
  IN SubSeq(arr, 1, start) \o <<entry>> \o SubSeq(arr, start + 1, Len(arr))

\* arr.splice(index, 1)
SpliceRemove(arr, index) ==
  LET start == SpliceStart(arr, index)
  IN SubSeq(arr, 1, start) \o SubSeq(arr, start + 2, Len(arr))

\* sequences over Entries without repetition, as passed to the constructor
DistinctSeqs ==
  {q \in UNION {[1..n -> Entries] : n \in 0..Cardinality(Entries)} :
     \A i, j \in DOMAIN q : i # j => q[i] # q[j]}

\* ---------------------------------------------------------------- variables
VARIABLES
  entries,                           \* this.entries
  selectedIndex,                     \* this.selectedIndex
  alive,                             \* this.alive: "undefined" until destroy() stores false
  transactionDepth,                  \* this.transactionDepth
  currentTransactionChangedEntries,  \* this.currentTransactionChangedEntries
  emitting,                          \* this.emitting: "undefined", "true" or "false"
  emitterDisposed,                   \* this.emitter has been disposed
  subscriptionsDisposed,             \* this.subscriptions has been disposed
  subs,                              \* the entries whose onDidDestroy the set is subscribed to
  warnings,                          \* console.warn calls made during the last call
  destroyedCalls,                    \* invocations of the caller's onDidDestroy listener
  entryDestroys,                     \* the entry.destroy() calls the set made during the last
                                     \* call: the entry, and whether the set included it then
  inListener,                        \* a listener of the caller that calls the set is running
  using,                             \* the caller holds a usingEachEntry subscription
  uses,                              \* per entry, its entryDisposables not yet disposed of
  observed,                          \* the entries the observeEachEntry callback of that
                                     \* subscription was called with during the last call
  cleanups,                          \* per entry, the disposables returned by the caller's
                                     \* function that were disposed of during the last call
  observing,                         \* the caller holds an observeEntries subscription
  seenEntries,                       \* the entries it was last called with
  log,                               \* events delivered to the caller's listeners during the
                                     \* last call, in order of delivery
  stack,                             \* prevSelectedEntry of each open explicit transact frame
  last                               \* the call made by the last step

vars == <<entries, selectedIndex, alive, transactionDepth,
          currentTransactionChangedEntries, emitting, emitterDisposed,
          subscriptionsDisposed, subs, warnings, destroyedCalls,
          entryDestroys, inListener, using, uses, observed, cleanups,
          observing, seenEntries, log, stack, last>>

\* the object's state as a record; `threw` is the outcome of the running call
State ==
  [entries |-> entries, selectedIndex |-> selectedIndex, alive |-> alive,
   transactionDepth |-> transactionDepth,
   currentTransactionChangedEntries |-> currentTransactionChangedEntries,
   emitting |-> emitting, emitterDisposed |-> emitterDisposed,
   subscriptionsDisposed |-> subscriptionsDisposed, subs |-> subs,
   warnings |-> warnings, destroyedCalls |-> destroyedCalls,
   entryDestroys |-> entryDestroys, inListener |-> inListener,
   using |-> using, uses |-> uses, observed |-> observed, cleanups |-> cleanups,
   observing |-> observing, seenEntries |-> seenEntries,
   log |-> log, threw |-> FALSE]

\* ------------------------------------------------------------------ queries
isAlive(s) == s.alive

isDestroyed(s) == isAlive(s) # "true"

getSelectedIndex(s) == s.selectedIndex

getSelectedEntry(s) == At(s.entries, s.selectedIndex)

getEntries(s) == s.entries

getSize(s) == Len(s.entries)

includes(s, entry) == \E i \in 1..Len(s.entries) : s.entries[i] = entry

indexOf(s, entry) ==
  IF includes(s, entry)
  THEN (CHOOSE i \in 1..Len(s.entries) :
          /\ s.entries[i] = entry
          /\ \A j \in 1..(i - 1) : s.entries[j] # entry) - 1
  ELSE -1

\* ------------------------------------------------------------------- events
Event(name, entry, index, snapshot) ==
  [name |-> name, entry |-> entry, index |-> index, entries |-> snapshot]

\* mutant of usingEachEntryAdded: entries added after construction are not
\* subscribed to
usingEachEntryAddedNever(s, entry) == s

\* the listener usingEachEntry registers through observeEachEntry: for an
\* added entry it subscribes to the entry's onDidDestroy (when it has one).
\* The subscriptions to one entry all run this.remove(entry) and are all
\* disposed of by the same did-remove-entry event, so that having several
\* of them cannot be told from having one: subs is a set.
usingEachEntryAdded(s, entry) ==
  IF ~s.subscriptionsDisposed /\ entry \in HasOnDidDestroy
  THEN [s EXCEPT !.subs = @ \cup {entry}]
  ELSE s

\* the onDidRemoveEntry listeners usingEachEntry registers per entry: the
\* ones whose entry is the removed one dispose of their entryDisposable
usingEachEntryRemoved(s, ent) == [s EXCEPT !.subs = @ \ {ent}]

\* this.subscriptions.dispose(): every entryDisposable is disposed of
subscriptionsDispose(s) ==
  [s EXCEPT !.subscriptionsDisposed = TRUE, !.subs = {}]

\* ---- a usingEachEntry(fn) subscription of the caller
NoEntries == [e \in Entries |-> 0]

\* the callback usingEachEntry hands to observeEachEntry: it calls fn(entry)
\* and keeps the disposable fn returns in a new entryDisposable
usingEachEntryCallback(s, entry) ==
  [s EXCEPT !.observed = Append(@, entry), !.uses[entry] = @ + 1]

\* mutant of observeEachEntry: the callback is not called for the entries
\* the set has already
observeEachEntryNoReplay(s, remaining) == [s EXCEPT !.using = TRUE]

\* observeEachEntry(callback): the callback is called for every entry of the
\* set in order and then registered for did-add-entry
RECURSIVE observeEachEntry(_, _)
observeEachEntry(s, remaining) ==
  IF remaining = <<>> THEN [s EXCEPT !.using = TRUE]
  ELSE observeEachEntry(usingEachEntryCallback(s, Head(remaining)), Tail(remaining))

usingEachEntry(s) == observeEachEntry(s, getEntries(s))

\* the did-add-entry listener of the subscription
usingEachEntryObserver(s, entry) ==
  IF s.using THEN usingEachEntryCallback(s, entry) ELSE s

\* the did-remove-entry listeners of the entryDisposables: those of the
\* removed entry are disposed of, and with them what fn returned
entryDisposableDispose(s, ent) ==
  IF ent \in Entries
  THEN [s EXCEPT !.cleanups[ent] = @ + s.uses[ent], !.uses[ent] = 0]
  ELSE s

\* the did-destroy listener of the subscription: disposable.dispose()
disposableDispose(s) ==
  [s EXCEPT !.cleanups = [e \in Entries |-> @[e] + s.uses[e]],
            !.uses = NoEntries,
            !.using = FALSE]

\* ---- an observeEntries(fn) subscription of the caller
\* observeEntries(fn): fn is called with the current entries and registered
\* for did-change-entries
observeEntries(s) == [s EXCEPT !.observing = TRUE, !.seenEntries = getEntries(s)]

\* the did-change-entries listener of the subscription
observeEntriesListener(s, ev) ==
  IF s.observing THEN [s EXCEPT !.seenEntries = ev.entries] ELSE s

\* this.emitter.emit(...): nothing once the emitter is disposed; otherwise
\* the set's own listeners run first (they subscribed in the constructor),
\* then the caller's listeners, which are recorded in the log.  The
\* did-destroy listeners are registered with once: usingEachEntry's disposes
\* of its subscriptions, the caller's is counted, and neither runs again.
dispatch(s, ev) ==
  IF s.emitterDisposed THEN s
  ELSE IF ev.name = "did-add-entry"
       THEN [usingEachEntryObserver(usingEachEntryAdded(s, ev.entry), ev.entry)
               EXCEPT !.log = Append(@, ev)]
  ELSE IF ev.name = "did-remove-entry"
       THEN [entryDisposableDispose(usingEachEntryRemoved(s, ev.entry), ev.entry)
               EXCEPT !.log = Append(@, ev)]
  ELSE IF ev.name = "did-destroy"
       THEN IF s.destroyedCalls > 0 THEN s
            ELSE [disposableDispose(subscriptionsDispose(s))
                    EXCEPT !.destroyedCalls = @ + 1, !.log = Append(@, ev)]
  ELSE IF ev.name = "did-change-entries"
       THEN [observeEntriesListener(s, ev) EXCEPT !.log = Append(@, ev)]
  ELSE [s EXCEPT !.log = Append(@, ev)]

emit(s, ev) ==
  LET s1 == [s EXCEPT !.emitting = "true"]
      s2 == dispatch(s1, ev)
  IN [s2 EXCEPT !.emitting = "false"]

didAddEntry(s, entry, index) ==
  emit([s EXCEPT !.currentTransactionChangedEntries = TRUE],
       Event("did-add-entry", entry, index, <<>>))

didRemoveEntry(s, entry, index) ==
  emit([s EXCEPT !.currentTransactionChangedEntries = TRUE],
       Event("did-remove-entry", entry, index, <<>>))

\* mutant of didDestroy: the event is never emitted
didDestroyNoEmit(s) == s

didDestroy(s) == emit(s, Event("did-destroy", Undefined, -1, <<>>))

\* --------------------------------------------------------------- transact
\* transact(fn) up to the call of fn: the warning and transactionDepth++
transactEnter(s) ==
  LET s1 == IF s.emitting = "true" THEN [s EXCEPT !.warnings = @ + 1] ELSE s
  IN [s1 EXCEPT !.transactionDepth = @ + 1]

\* mutant of transactExit: the bulk events are emitted by nested transactions
\* as well (no test of transactionDepth)
transactExitAtAnyDepth(s, prevSelectedEntry) ==
  LET s1 == [s EXCEPT !.transactionDepth = @ - 1]
      s2 == IF s1.currentTransactionChangedEntries
            THEN emit([s1 EXCEPT !.currentTransactionChangedEntries = FALSE],
                      Event("did-change-entries", Undefined, -1, getEntries(s1)))
            ELSE s1
      selectedEntry == getSelectedEntry(s2)
  IN IF selectedEntry # prevSelectedEntry
     THEN emit(s2, Event("did-change-selected-entry", selectedEntry, -1, <<>>))
     ELSE s2

\* transact(fn) after fn has returned normally
transactExit(s, prevSelectedEntry) ==
  LET s1 == [s EXCEPT !.transactionDepth = @ - 1]
  IN IF s1.transactionDepth # 0 THEN s1
     ELSE LET s2 == IF s1.currentTransactionChangedEntries
                    THEN emit([s1 EXCEPT !.currentTransactionChangedEntries = FALSE],
                              Event("did-change-entries", Undefined, -1, getEntries(s1)))
                    ELSE s1
              selectedEntry == getSelectedEntry(s2)
          IN IF selectedEntry # prevSelectedEntry
             THEN emit(s2, Event("did-change-selected-entry", selectedEntry, -1, <<>>))
             ELSE s2

\* transact(fn) around the state fn leaves: an exception thrown by fn leaves
\* transact at once, without the decrement and without the bulk events
transactAround(s, afterFn) ==
  IF afterFn.threw THEN afterFn ELSE transactExit(afterFn, getSelectedEntry(s))

Throw(s) == [s EXCEPT !.threw = TRUE]

\* ------------------------------------------------------------ mutators
\* mutant of addAtBody: an entry the set includes already is inserted again
addAtBodyNoDuplicateCheck(s, entry, index) ==
  IF ~(index <= getSize(s)) THEN Throw(s)
  ELSE LET s1 == [s EXCEPT !.entries = SpliceInsert(@, index, entry)]
           s2 == IF index <= s1.selectedIndex
                 THEN [s1 EXCEPT !.selectedIndex = @ + 1]
                 ELSE s1
       IN didAddEntry(s2, entry, index)

\* mutant of addAtBody: an insertion at the selected index does not shift the
\* selection (index < selectedIndex)
addAtBodyShiftsOnLess(s, entry, index) ==
  IF includes(s, entry) THEN Throw(s)
  ELSE IF ~(index <= getSize(s)) THEN Throw(s)
  ELSE LET s1 == [s EXCEPT !.entries = SpliceInsert(@, index, entry)]
           s2 == IF index < s1.selectedIndex
                 THEN [s1 EXCEPT !.selectedIndex = @ + 1]
                 ELSE s1
       IN didAddEntry(s2, entry, index)

addAtBody(s, entry, index) ==
  IF includes(s, entry) THEN Throw(s)
  ELSE IF ~(index <= getSize(s)) THEN Throw(s)
  ELSE LET s1 == [s EXCEPT !.entries = SpliceInsert(@, index, entry)]
           s2 == IF index <= s1.selectedIndex
                 THEN [s1 EXCEPT !.selectedIndex = @ + 1]
                 ELSE s1
       IN didAddEntry(s2, entry, index)

addAt(s, entry, index) == transactAround(s, addAtBody(transactEnter(s), entry, index))

add(s, entry) == addAt(s, entry, getSize(s))

\* mutant of removeAtSelection: the index is kept whatever was removed
removeAtSelectionKeepsIndex(index, selIndex, size) ==
  IF size = 0 THEN -1 ELSE selIndex

\* mutant of removeAtSelection: index <= selectedIndex instead of <
removeAtSelectionShiftsOnEqual(index, selIndex, size) ==
  IF size = 0 THEN -1
  ELSE IF index <= selIndex THEN Max(0, selIndex - 1)
  ELSE Min(selIndex, size - 1)

\* mutant of removeAtSelection: the selection is not clamped to the new size
removeAtSelectionNoClamp(index, selIndex, size) ==
  IF size = 0 THEN -1
  ELSE IF index < selIndex THEN Max(0, selIndex - 1)
  ELSE selIndex

\* mutant of removeAtSelection: a removal before the selection does not
\* shift the index
removeAtSelectionNoShift(index, selIndex, size) ==
  IF size = 0 THEN -1 ELSE Min(selIndex, size - 1)

\* the selection after removeAt(index), size being the size after the splice
removeAtSelection(index, selIndex, size) ==
  IF size = 0 THEN -1
  ELSE IF index < selIndex THEN Max(0, selIndex - 1)
  ELSE Min(selIndex, size - 1)

\* mutant of removeAtBody: the removed entry is read after the splice
removeAtBodyReadsAfterSplice(s, index) ==
  LET s1 == [s EXCEPT !.entries = SpliceRemove(@, index)]
      entry == At(s1.entries, index)
      s2 == [s1 EXCEPT !.selectedIndex = removeAtSelection(index, @, getSize(s1))]
  IN didRemoveEntry(s2, entry, index)

removeAtBody(s, index) ==
  LET entry == At(s.entries, index)
      s1 == [s EXCEPT !.entries = SpliceRemove(@, index)]
      s2 == [s1 EXCEPT !.selectedIndex = removeAtSelection(index, @, getSize(s1))]
  IN didRemoveEntry(s2, entry, index)

removeAt(s, index) == transactAround(s, removeAtBody(transactEnter(s), index))

\* mutant of remove: removeAt is called with the index -1 of an entry the
\* set does not include
removeWithoutAbsentCheck(s, entry) == removeAt(s, indexOf(s, entry))

remove(s, entry) ==
  LET index == indexOf(s, entry)
  IN IF index = -1 THEN s ELSE removeAt(s, index)

\* mutant of selectAtBody: a change of the selection marks the entries as
\* changed
selectAtBodyMarksEntriesChanged(s, index) ==
  IF index = s.selectedIndex THEN s
  ELSE IF index < 0 \/ index >= getSize(s) THEN Throw(s)
  ELSE [s EXCEPT !.selectedIndex = index, !.currentTransactionChangedEntries = TRUE]

\* mutant of selectAtBody: the index is not checked against the range
selectAtBodyNoRangeCheck(s, index) ==
  IF index = s.selectedIndex THEN s
  ELSE [s EXCEPT !.selectedIndex = index]

\* mutant of selectAtBody: the range is checked before the test for the
\* current selectedIndex
selectAtBodyChecksRangeFirst(s, index) ==
  IF index < 0 \/ index >= getSize(s) THEN Throw(s)
  ELSE IF index = s.selectedIndex THEN s
  ELSE [s EXCEPT !.selectedIndex = index]

selectAtBody(s, index) ==
  IF index = s.selectedIndex THEN s
  ELSE IF index < 0 \/ index >= getSize(s) THEN Throw(s)
  ELSE [s EXCEPT !.selectedIndex = index]

selectAt(s, index) == transactAround(s, selectAtBody(transactEnter(s), index))

\* mutant of selectNext: the next index is not reduced modulo the size
selectNextNoWrap(s) ==
  LET size == getSize(s)
  IN IF size = 0 THEN s ELSE selectAt(s, s.selectedIndex + 1)

selectNext(s) ==
  LET size == getSize(s)
  IN IF size = 0 THEN s ELSE selectAt(s, (s.selectedIndex + 1) % size)

selectPrevious(s) ==
  LET size == getSize(s)
  IN IF size = 0 THEN s ELSE selectAt(s, (s.selectedIndex - 1 + size) % size)

select(s, entry) ==
  LET index == indexOf(s, entry)
  IN IF index = -1 THEN Throw(s) ELSE selectAt(s, index)

\* ------------------------------------------------- destruction of entries
\* an entry with onDidDestroy emits its did-destroy signal: every handler
\* the set has subscribed runs this.remove(entry); the first one removes the
\* entry, the others find it gone
entryDidDestroy(s, entry) == IF entry \in s.subs THEN remove(s, entry) ELSE s

\* destroyEntry(entry): entry.destroy() when the entry has the method; the
\* destroy() of a Destructable emits the entry's did-destroy signal
destroyEntry(s, entry) ==
  IF entry \in HasDestroy
  THEN LET s1 == [s EXCEPT !.entryDestroys =
                     Append(@, [entry |-> entry, included |-> includes(s, entry)])]
       IN IF entry \in HasOnDidDestroy THEN entryDidDestroy(s1, entry) ELSE s1
  ELSE s

\* mutant of destroyEach: the entry is removed first and destroyed afterwards
RECURSIVE destroyEachRemovesFirst(_, _)
destroyEachRemovesFirst(s, snapshot) ==
  IF snapshot = <<>> \/ s.threw THEN s
  ELSE LET entry == Head(snapshot)
       IN IF ~includes(s, entry) THEN Throw(s)
          ELSE destroyEachRemovesFirst(destroyEntry(remove(s, entry), entry),
                                       Tail(snapshot))

\* the forEach of destroyEntries over the snapshot this.getEntries()
RECURSIVE destroyEach(_, _)
destroyEach(s, snapshot) ==
  IF snapshot = <<>> \/ s.threw THEN s
  ELSE LET entry == Head(snapshot)
       IN IF ~includes(s, entry) THEN Throw(s)
          ELSE destroyEach(remove(destroyEntry(s, entry), entry), Tail(snapshot))

\* the entries an Array.prototype.forEach visits when each visited entry is
\* removed from the array it iterates: every other one
RECURSIVE EveryOther(_)
EveryOther(arr) ==
  IF Len(arr) <= 1 THEN arr ELSE <<Head(arr)>> \o EveryOther(Tail(Tail(arr)))

\* mutant of destroyEntries: the forEach runs over this.entries, not a copy
destroyEntriesInPlace(s) ==
  transactAround(s, destroyEach(transactEnter(s), EveryOther(s.entries)))

destroyEntries(s) ==
  transactAround(s, destroyEach(transactEnter(s), getEntries(s)))

\* mutant of destroy: the emitter is not disposed of
destroyKeepsEmitter(s) ==
  LET s1 == subscriptionsDispose(s)
      s2 == destroyEntries(s1)
  IN IF s2.threw THEN s2
     ELSE didDestroy([s2 EXCEPT !.alive = "false"])

destroy(s) ==
  LET s1 == subscriptionsDispose(s)
      s2 == destroyEntries(s1)
  IN IF s2.threw THEN s2
     ELSE LET s3 == [s2 EXCEPT !.alive = "false"]
              s4 == didDestroy(s3)
          IN [s4 EXCEPT !.emitterDisposed = TRUE]

\* ------------------------------------------------------------ constructor
\* the selectedIndex the constructor stores; given is FALSE when
\* options.selectedIndex is absent
constructorSelectedIndex(initial, given, index) ==
  IF ~given THEN (IF Len(initial) = 0 THEN -1 ELSE 0) ELSE index

\* the constructor's two checks of options.selectedIndex
constructorThrows(initial, given, index) ==
  /\ given
  /\ \/ index = -1 /\ Len(initial) # 0
     \/ index >= Len(initial)

\* usingEachEntry in the constructor: one subscription per initial entry
\* that has onDidDestroy
constructorSubs(initial) ==
  {e \in HasOnDidDestroy : \E i \in 1..Len(initial) : initial[i] = e}

\* a call: its name, its arguments, whether it threw, and whether it was
\* made while no explicit transact(fn) of the caller was open
CallOf(op, entry, index, threw, top) ==
  [op |-> op, entry |-> entry, index |-> index, threw |-> threw, top |-> top]

\* a set constructed from distinct entries and, when one is given, a
\* selected index >= -1 the constructor accepts; the caller then registers
\* one listener per event
Init ==
  \E initial \in DistinctSeqs, given \in BOOLEAN, index \in Indices :
    /\ index >= -1
    /\ ~given => index = -1
    /\ ~constructorThrows(initial, given, index)
    /\ entries = initial
    /\ selectedIndex = constructorSelectedIndex(initial, given, index)
    /\ alive = Undefined
    /\ transactionDepth = 0
    /\ currentTransactionChangedEntries = FALSE
    /\ emitting = Undefined
    /\ emitterDisposed = FALSE
    /\ subscriptionsDisposed = FALSE
    /\ subs = constructorSubs(initial)
    /\ warnings = 0
    /\ destroyedCalls = 0
    /\ entryDestroys = <<>>
    /\ inListener = FALSE
    /\ using = FALSE
    /\ uses = NoEntries
    /\ observed = <<>>
    /\ cleanups = NoEntries
    /\ observing = FALSE
    /\ seenEntries = <<>>
    /\ log = <<>>
    /\ stack = <<>>
    /\ last = CallOf("constructor", Undefined, -1, FALSE, TRUE)

\* ------------------------------------------------------------------ steps
\* the state a call starts from: nothing delivered, no warning yet
Begin ==
  [State EXCEPT !.log = <<>>, !.warnings = 0, !.entryDestroys = <<>>,
                !.observed = <<>>, !.cleanups = NoEntries]

Commit(t) ==
  /\ entries' = t.entries
  /\ selectedIndex' = t.selectedIndex
  /\ alive' = t.alive
  /\ transactionDepth' = t.transactionDepth
  /\ currentTransactionChangedEntries' = t.currentTransactionChangedEntries
  /\ emitting' = t.emitting
  /\ emitterDisposed' = t.emitterDisposed
  /\ subscriptionsDisposed' = t.subscriptionsDisposed
  /\ subs' = t.subs
  /\ warnings' = t.warnings
  /\ destroyedCalls' = t.destroyedCalls
  /\ entryDestroys' = t.entryDestroys
  /\ inListener' = t.inListener
  /\ using' = t.using
  /\ uses' = t.uses
  /\ observed' = t.observed
  /\ cleanups' = t.cleanups
  /\ observing' = t.observing
  /\ seenEntries' = t.seenEntries
  /\ log' = t.log

\* the model's bound on what a call may leave behind
Bounded(t) ==
  /\ t.transactionDepth <= MaxDepth
  /\ \A e \in Entries : t.uses[e] <= MaxUses

\* a call of the set with result t.  An exception leaves the open transact
\* frames of the caller it is not caught in: k of them, without their
\* decrement of transactionDepth.
Call(op, entry, index, t) ==
  /\ Bounded(t)
  /\ Commit(t)
  /\ last' = CallOf(op, entry, index, t.threw, stack = <<>>)
  /\ \E k \in 0..Len(stack) :
       /\ ~t.threw => k = 0
       /\ stack' = SubSeq(stack, 1, Len(stack) - k)

Add(e) == Call("add", e, getSize(Begin), add(Begin, e))

AddAt(e, i) == Call("addAt", e, i, addAt(Begin, e, i))

Remove(e) == Call("remove", e, indexOf(Begin, e), remove(Begin, e))

RemoveAt(i) == Call("removeAt", At(entries, i), i, removeAt(Begin, i))

Select(e) == Call("select", e, indexOf(Begin, e), select(Begin, e))

SelectAt(i) == Call("selectAt", At(entries, i), i, selectAt(Begin, i))

SelectNext == Call("selectNext", Undefined, -1, selectNext(Begin))

SelectPrevious == Call("selectPrevious", Undefined, -1, selectPrevious(Begin))

Destroy == Call("destroy", Undefined, -1, destroy(Begin))

\* an entry with onDidDestroy announces its destruction
EntryDestroyed(e) ==
  /\ e \in HasOnDidDestroy
  /\ Call("entry.destroy", e, indexOf(Begin, e), entryDidDestroy(Begin, e))

\* the caller enters set.transact(fn): fn is about to run
TransactBegin ==
  /\ Bounded(transactEnter(Begin))
  /\ Commit(transactEnter(Begin))
  /\ stack' = Append(stack, getSelectedEntry(Begin))
  /\ last' = CallOf("transact", Undefined, -1, FALSE, stack = <<>>)

\* fn returns normally: the rest of the innermost open transact runs
TransactEnd ==
  /\ stack # <<>>
  /\ Commit(transactExit(Begin, stack[Len(stack)]))
  /\ stack' = SubSeq(stack, 1, Len(stack) - 1)
  /\ last' = CallOf("transactEnd", Undefined, -1, FALSE, Len(stack) = 1)

\* fn throws on its own: k open transact frames are left by the exception
BodyThrows ==
  /\ stack # <<>>
  /\ \E k \in 1..Len(stack) : stack' = SubSeq(stack, 1, Len(stack) - k)
  /\ last' = CallOf("throw", Undefined, -1, TRUE, FALSE)
  /\ Commit(Begin)

Next ==
  \/ \E e \in Entries : Add(e)
  \/ \E e \in Entries, i \in Indices : AddAt(e, i)
  \/ \E e \in Entries : Remove(e)
  \/ \E i \in Indices : RemoveAt(i)
  \/ \E e \in Entries : Select(e)
  \/ \E i \in Indices : SelectAt(i)
  \/ SelectNext
  \/ SelectPrevious
  \/ Destroy
  \/ \E e \in Entries : EntryDestroyed(e)
  \/ TransactBegin
  \/ TransactEnd
  \/ BodyThrows

Spec == Init /\ [][Next]_vars

\* ------------------------------------------- a listener that calls the set
\* The caller has registered a did-add-entry listener that calls the set
\* itself the first time it runs (the listener of the reentrancy test: later
\* invocations return at once), so the add that invokes it is suspended
\* inside emit, inside its transact, while the listener's calls run.

\* emit up to the return of this.emitter.emit
emitEnter(s, ev) == dispatch([s EXCEPT !.emitting = "true"], ev)

\* the rest of emit
emitLeave(s) == [s EXCEPT !.emitting = "false"]

\* addAt(entry, index), not failing, up to the invocation of the listener
addAtUntilListener(s, entry, index) ==
  LET s0 == transactEnter(s)
      s1 == [s0 EXCEPT !.entries = SpliceInsert(@, index, entry)]
      s2 == IF index <= s1.selectedIndex
            THEN [s1 EXCEPT !.selectedIndex = @ + 1]
            ELSE s1
  IN emitEnter([s2 EXCEPT !.currentTransactionChangedEntries = TRUE,
                          !.inListener = TRUE],
               Event("did-add-entry", entry, index, <<>>))

\* the caller adds an entry and the listener starts to run
ListenerEnter(e, i) ==
  /\ ~inListener
  /\ stack = <<>>
  /\ ~includes(Begin, e)
  /\ 0 <= i /\ i <= getSize(Begin)
  /\ Bounded(addAtUntilListener(Begin, e, i))
  /\ Commit(addAtUntilListener(Begin, e, i))
  /\ stack' = <<getSelectedEntry(Begin)>>
  /\ last' = CallOf("listener", e, i, FALSE, TRUE)

\* a call the running listener makes, returning normally
Reentrant(call) ==
  /\ inListener
  /\ call
  /\ ~last'.threw
  /\ stack' = stack

\* set.transact(() => {})
Transact ==
  Call("transact", Undefined, -1, transactAround(Begin, transactEnter(Begin)))

\* the listener returns: the rest of emit, of addAt and of its transact
ListenerReturn ==
  /\ inListener
  /\ Len(stack) = 1
  /\ Commit([transactExit(emitLeave(Begin), stack[1]) EXCEPT !.inListener = FALSE])
  /\ stack' = <<>>
  /\ last' = CallOf("listenerReturn", Undefined, -1, FALSE, TRUE)

NextListener ==
  \/ \E e \in Entries, i \in Indices : ListenerEnter(e, i)
  \/ \E e \in Entries : Reentrant(Add(e))
  \/ \E e \in Entries, i \in Indices : Reentrant(AddAt(e, i))
  \/ \E e \in Entries : Reentrant(Remove(e))
  \/ \E i \in Indices : Reentrant(RemoveAt(i))
  \/ \E e \in Entries : Reentrant(Select(e))
  \/ \E i \in Indices : Reentrant(SelectAt(i))
  \/ Reentrant(Transact)
  \/ ListenerReturn

SpecListener == Init /\ [][NextListener]_vars

\* ---------------------------------------------------------- serialization
\* entry.serialize() and deserializers.deserialize(entry) of the caller: a
\* representation that is not the entry, from which the entry is recovered
serializeEntry(entry) == <<"serialized", entry>>

deserializeEntry(repr) == repr[2]

serialize(s) ==
  [deserializer |-> "SelectionOrderedSet",
   entries |-> [i \in 1..Len(getEntries(s)) |-> serializeEntry(getEntries(s)[i])],
   selectedIndex |-> s.selectedIndex]

\* deserialize(state): the constructor with the deserialized entries and
\* state.selectedIndex as options; threw when the constructor throws
deserialize(state) ==
  LET initial == [i \in 1..Len(state.entries) |-> deserializeEntry(state.entries[i])]
  IN IF constructorThrows(initial, TRUE, state.selectedIndex)
     THEN [threw |-> TRUE, entries |-> <<>>, selectedIndex |-> -1]
     ELSE [threw |-> FALSE, entries |-> initial,
           selectedIndex |-> constructorSelectedIndex(initial, TRUE, state.selectedIndex)]

\* ------------------------------------- a usingEachEntry of the caller
\* the caller subscribes with set.usingEachEntry(fn), once, on a live set
UsingEachEntry ==
  /\ ~using
  /\ alive # "false"
  /\ Bounded(usingEachEntry(Begin))
  /\ Commit(usingEachEntry(Begin))
  /\ stack' = stack
  /\ last' = CallOf("usingEachEntry", Undefined, -1, FALSE, stack = <<>>)

NextUsing ==
  \/ UsingEachEntry
  \/ \E e \in Entries : Add(e)
  \/ \E e \in Entries, i \in Indices : AddAt(e, i)
  \/ \E e \in Entries : Remove(e)
  \/ \E i \in Indices : RemoveAt(i)
  \/ \E e \in Entries : EntryDestroyed(e)
  \/ Destroy

SpecUsing == Init /\ [][NextUsing]_vars

\* ------------------------------------- an observeEntries of the caller
\* the caller subscribes with set.observeEntries(fn), once, on a live set
\* and outside any transact(fn)
ObserveEntries ==
  /\ ~observing
  /\ alive # "false"
  /\ stack = <<>>
  /\ Commit(observeEntries(Begin))
  /\ stack' = stack
  /\ last' = CallOf("observeEntries", Undefined, -1, FALSE, TRUE)

NextObserve ==
  \/ ObserveEntries
  \/ \E e \in Entries : Add(e)
  \/ \E e \in Entries, i \in Indices : AddAt(e, i)
  \/ \E e \in Entries : Remove(e)
  \/ \E i \in Indices : RemoveAt(i)
  \/ \E e \in Entries : Select(e)
  \/ TransactBegin
  \/ TransactEnd
  \/ BodyThrows

SpecObserve == Init /\ [][NextObserve]_vars

\* --------------------------------------------- construction from options
\* the values of options.selectedIndex tried, below -1 and above the size too
OptionIndices == (0 - 2) .. Cardinality(Entries)

\* the options of a construction that has not run yet: entries holds
\* options.entries; last.index holds options.selectedIndex and last.entry
\* names the option when it is given
InitOptions ==
  \E initial \in DistinctSeqs, given \in BOOLEAN, index \in OptionIndices :
    /\ ~given => index = -1
    /\ entries = initial
    /\ selectedIndex = index
    /\ alive = Undefined
    /\ transactionDepth = 0
    /\ currentTransactionChangedEntries = FALSE
    /\ emitting = Undefined
    /\ emitterDisposed = FALSE
    /\ subscriptionsDisposed = FALSE
    /\ subs = {}
    /\ warnings = 0
    /\ destroyedCalls = 0
    /\ entryDestroys = <<>>
    /\ inListener = FALSE
    /\ using = FALSE
    /\ uses = NoEntries
    /\ observed = <<>>
    /\ cleanups = NoEntries
    /\ observing = FALSE
    /\ seenEntries = <<>>
    /\ log = <<>>
    /\ stack = <<>>
    /\ last = CallOf("options", IF given THEN "selectedIndex" ELSE Undefined,
                     index, FALSE, TRUE)

\* new SelectionOrderedSet(options)
Construct ==
  /\ last.op = "options"
  /\ LET given == last.entry = "selectedIndex"
         threw == constructorThrows(entries, given, last.index)
     IN /\ last' = CallOf("constructor", last.entry, last.index, threw, TRUE)
        /\ selectedIndex' = IF threw THEN selectedIndex
                            ELSE constructorSelectedIndex(entries, given, last.index)
        /\ subs' = IF threw THEN subs ELSE constructorSubs(entries)
  /\ UNCHANGED <<entries, alive, transactionDepth, currentTransactionChangedEntries,
                 emitting, emitterDisposed, subscriptionsDisposed, warnings,
                 destroyedCalls, entryDestroys, inListener, using, uses,
                 observed, cleanups, observing, seenEntries, log, stack>>

SpecConstruct == InitOptions /\ [][Construct]_vars

TypeOK ==
  /\ selectedIndex \in Int
  /\ inListener \in BOOLEAN
  /\ transactionDepth \in 0..MaxDepth
  /\ Len(stack) <= transactionDepth

\* ----------------------------------------------------------- properties
\* destroy() has not run on the set
Live == alive # "false"

EventsNamed(events, name) == SelectSeq(events, LAMBDA ev : ev.name = name)

Removals(events) == EventsNamed(events, "did-remove-entry")

IsBulk(ev) == ev.name \in {"did-change-entries", "did-change-selected-entry"}

\* C1: in every reachable state the set is empty if and only if
\* selectedIndex is -1, and a non-empty set has 0 <= selectedIndex < size
C1_SelectionIffNonEmpty ==
  /\ getSize(State) = 0 <=> getSelectedIndex(State) = -1
  /\ getSize(State) > 0 =>
       getSelectedIndex(State) >= 0 /\ getSelectedIndex(State) < getSize(State)

\* C2: a call made while an explicit transact(fn) of the caller is open
\* delivers no did-change-entries and no did-change-selected-entry; the
\* return of the outermost transact delivers nothing else than at most one
\* did-change-entries, carrying the entries as they are then, followed by at
\* most one did-change-selected-entry, carrying the selected entry as it is
\* then
C2_BulkEventsDeferred ==
  /\ ~last.top => \A i \in 1..Len(log) : ~IsBulk(log[i])
  /\ (last.op = "transactEnd" /\ last.top) =>
       /\ \A i \in 1..Len(log) : IsBulk(log[i])
       /\ Len(EventsNamed(log, "did-change-entries")) <= 1
       /\ Len(EventsNamed(log, "did-change-selected-entry")) <= 1
       /\ \A i \in 1..Len(log) :
            /\ log[i].name = "did-change-entries" =>
                 i = 1 /\ log[i].entries = getEntries(State)
            /\ log[i].name = "did-change-selected-entry" =>
                 log[i].entry = getSelectedEntry(State)

C2_Witness ==
  /\ last.op = "transactEnd" /\ last.top
  /\ Len(log) = 2
  /\ log[1].name = "did-change-entries" /\ log[1].entries = entries
  /\ log[2].name = "did-change-selected-entry"
  /\ log[2].entry = getSelectedEntry(State)
  /\ getSize(State) >= 2

\* C3: on a set that has not been destroyed, remove(entry) of the selected
\* entry at index i < size-1 selects the entry that was at index i+1 and
\* delivers exactly one did-remove-entry, {entry, index: i}, first
C3_RemoveSelectedSelectsNext ==
  [][(/\ Live
      /\ selectedIndex >= 0 /\ selectedIndex < getSize(State) - 1
      /\ last'.op = "remove"
      /\ last'.entry = getSelectedEntry(State))
     => /\ getSelectedEntry(State)' = At(entries, selectedIndex + 1)
        /\ Len(Removals(log')) = 1
        /\ log'[1] = Event("did-remove-entry", getSelectedEntry(State),
                           selectedIndex, <<>>)]_vars

C3_Witness ==
  /\ last.op = "remove" /\ Live
  /\ Len(log) = 3
  /\ log[1] = Event("did-remove-entry", last.entry, selectedIndex, <<>>)
  /\ log[3].name = "did-change-selected-entry"
  /\ log[3].entry = getSelectedEntry(State)
  /\ log[3].entry \in Entries
  /\ selectedIndex < getSize(State) - 1

\* C4: on a set that has not been destroyed and has at least two entries,
\* remove(entry) of the selected last entry selects the new last entry and
\* delivers exactly one did-remove-entry, {entry, index: old size - 1}, first
C4_RemoveSelectedLastSelectsNewLast ==
  [][(/\ Live
      /\ getSize(State) >= 2 /\ selectedIndex = getSize(State) - 1
      /\ last'.op = "remove"
      /\ last'.entry = getSelectedEntry(State))
     => /\ selectedIndex' = getSize(State)' - 1
        /\ getSelectedEntry(State)' = At(entries, getSize(State) - 2)
        /\ Len(Removals(log')) = 1
        /\ log'[1] = Event("did-remove-entry", getSelectedEntry(State),
                           getSize(State) - 1, <<>>)]_vars

C4_Witness ==
  /\ last.op = "remove" /\ Live
  /\ Len(log) = 3
  /\ log[1] = Event("did-remove-entry", last.entry, getSize(State), <<>>)
  /\ log[3].name = "did-change-selected-entry"
  /\ log[3].entry = getSelectedEntry(State)
  /\ selectedIndex = getSize(State) - 1
  /\ getSize(State) >= 2

\* C5: on a set that has not been destroyed and has a valid selection,
\* remove(entry) of an entry other than the selected one leaves the selected
\* entry the same; selectedIndex decreases by one when the removed entry was
\* before the selection and stays when it was after it
C5_RemoveOtherKeepsSelectedEntry ==
  [][(/\ Live
      /\ selectedIndex >= 0 /\ selectedIndex < getSize(State)
      /\ last'.op = "remove"
      /\ includes(State, last'.entry)
      /\ last'.entry # getSelectedEntry(State))
     => /\ getSelectedEntry(State)' = getSelectedEntry(State)
        /\ indexOf(State, last'.entry) < selectedIndex =>
             selectedIndex' = selectedIndex - 1
        /\ indexOf(State, last'.entry) > selectedIndex =>
             selectedIndex' = selectedIndex]_vars

C5_Witness ==
  /\ last.op = "remove" /\ last.top /\ Live
  /\ transactionDepth = 0
  /\ Len(log) = 2
  /\ log[1].name = "did-remove-entry" /\ log[1].entry = last.entry
  /\ log[1].index <= selectedIndex
  /\ log[2].name = "did-change-entries"
  /\ getSize(State) >= 2

\* C6: on a set that has not been destroyed, removing the only entry leaves
\* the set empty, selectedIndex -1 and no selected entry, and delivers
\* did-remove-entry {entry, index: 0}
C6_RemoveOnlyEntry ==
  [][(/\ Live
      /\ getSize(State) = 1
      /\ last'.op = "remove"
      /\ last'.entry = entries[1])
     => /\ entries' = <<>>
        /\ selectedIndex' = -1
        /\ getSelectedEntry(State)' = Undefined
        /\ Len(Removals(log')) = 1
        /\ log'[1] = Event("did-remove-entry", entries[1], 0, <<>>)]_vars

C6_Witness ==
  /\ last.op = "remove" /\ Live
  /\ entries = <<>> /\ selectedIndex = -1
  /\ Len(log) = 3
  /\ log[1] = Event("did-remove-entry", last.entry, 0, <<>>)
  /\ log[3] = Event("did-change-selected-entry", Undefined, -1, <<>>)

\* C7: when an entry with onDidDestroy that is in a set that has not been
\* destroyed announces its destruction, the set removes it: the entry is no
\* longer in the set and exactly one did-remove-entry is delivered, carrying
\* the entry and the index it had; the entry may come from the constructor
\* or from add/addAt
C7_DestroyedEntryIsRemoved ==
  [][(/\ Live
      /\ last'.op = "entry.destroy"
      /\ includes(State, last'.entry))
     => /\ ~includes(State', last'.entry)
        /\ Removals(log') =
             <<Event("did-remove-entry", last'.entry,
                     indexOf(State, last'.entry), <<>>)>>]_vars

C7_Witness ==
  /\ last.op = "entry.destroy" /\ Live
  /\ last.entry \in HasOnDidDestroy
  /\ ~includes(State, last.entry)
  /\ Len(log) >= 1
  /\ log[1] = Event("did-remove-entry", last.entry, 1, <<>>)
  /\ last.entry \notin subs
  /\ getSize(State) >= 1

\* C8: destroy() on a set of N entries that has not been destroyed delivers
\* did-remove-entry exactly N times, once for each entry, and leaves the set
\* empty
C8_DestroyRemovesEachEntryOnce ==
  [][(Live /\ last'.op = "destroy")
     => /\ getSize(State)' = 0
        /\ Len(Removals(log')) = getSize(State)
        /\ \A i \in 1..Len(entries) :
             Len(SelectSeq(Removals(log'),
                           LAMBDA ev : ev.entry = entries[i])) = 1]_vars

C8_Witness ==
  /\ last.op = "destroy"
  /\ entries = <<>>
  /\ Len(Removals(log)) = 3
  /\ \A e \in Entries :
       Len(SelectSeq(Removals(log), LAMBDA ev : ev.entry = e)) = 1
  /\ log[Len(log)].name = "did-destroy"

\* C9: destroy(), called while no transact(fn) of the caller is open on a
\* set of N >= 1 entries that has not been destroyed, delivers the N
\* did-remove-entry events, then exactly one did-change-entries with an
\* empty snapshot, then exactly one did-change-selected-entry without an
\* entry, then did-destroy
C9_DestroyDeliversOneBulkPair ==
  [][(/\ Live
      /\ stack = <<>>
      /\ getSize(State) >= 1
      /\ last'.op = "destroy")
     => LET n == getSize(State)
        IN /\ Len(log') = n + 3
           /\ \A i \in 1..n : log'[i].name = "did-remove-entry"
           /\ log'[n + 1] = Event("did-change-entries", Undefined, -1, <<>>)
           /\ log'[n + 2] = Event("did-change-selected-entry", Undefined, -1, <<>>)
           /\ log'[n + 3].name = "did-destroy"]_vars

\* C10: the caller's onDidDestroy listener is invoked exactly once by
\* destroy() and never again, also when destroy() is called again; once
\* destroy() has returned isDestroyed() is true and isAlive() is false
C10_DestroyedDeliveredOnce ==
  /\ destroyedCalls = IF Live THEN 0 ELSE 1
  /\ last.op = "destroy" =>
       /\ ~last.threw
       /\ isDestroyed(State) = TRUE
       /\ isAlive(State) = "false"

C10_Witness ==
  /\ last.op = "destroy"
  /\ log = <<>>
  /\ destroyedCalls = 1
  /\ isAlive(State) = "false"

\* the entries of arr that have a destroy() method, in order
WithDestroy(arr) == SelectSeq(arr, LAMBDA e : e \in HasDestroy)

\* C11: destroy() calls entry.destroy() exactly once for every entry of the
\* set that has the method, in the order of the entries, each time while the
\* entry is still in the set
C11_DestroyDestroysEachEntryFirst ==
  [][last'.op = "destroy"
     => /\ Len(entryDestroys') = Len(WithDestroy(entries))
        /\ \A i \in 1..Len(entryDestroys') :
             /\ entryDestroys'[i].entry = WithDestroy(entries)[i]
             /\ entryDestroys'[i].included]_vars

C11_Witness ==
  /\ last.op = "destroy"
  /\ Len(entryDestroys) = 2
  /\ entryDestroys[1].entry # entryDestroys[2].entry
  /\ \A i \in 1..2 : entryDestroys[i].included
  /\ Len(Removals(log)) = 3
  /\ entries = <<>>

\* the calls that enter transact
MutationOps == {"add", "addAt", "remove", "removeAt", "select", "selectAt", "transact"}

\* C12: every mutation call made while a listener of the set is running
\* surfaces a warning and does not fail, also when an earlier call of the
\* same listener has already completed
C12_ReentrantCallsWarn ==
  [][(/\ inListener
      /\ last'.op \in MutationOps
      /\ last'.op = "remove" => includes(State, last'.entry))
     => warnings' = 1 /\ ~last'.threw]_vars

\* C13: on a live set every add or addAt that returns delivers, during the
\* call, exactly one did-add-entry with the entry and its index after the
\* insertion, and every call that removes an entry exactly one
\* did-remove-entry with that entry and its index before the removal
C13_ImmediateEntryEvents ==
  [][(Live /\ ~last'.threw)
     => /\ last'.op \in {"add", "addAt"}
           => EventsNamed(log', "did-add-entry") =
                <<Event("did-add-entry", last'.entry,
                        indexOf(State', last'.entry), <<>>)>>
        /\ last'.op \in {"remove", "removeAt", "entry.destroy"}
           => \A e \in Entries :
                (includes(State, e) /\ ~includes(State', e))
                => Removals(log') =
                     <<Event("did-remove-entry", e, indexOf(State, e), <<>>)>>]_vars

\* C14: add(entry) and addAt(entry, index) with an entry the set includes
\* throw, leave entries and selectedIndex as they were and deliver no event
C14_DuplicateEntryFails ==
  [][(last'.op \in {"add", "addAt"} /\ includes(State, last'.entry))
     => /\ last'.threw
        /\ entries' = entries
        /\ selectedIndex' = selectedIndex
        /\ log' = <<>>]_vars

C14_Witness ==
  /\ last.op = "addAt"
  /\ last.threw
  /\ includes(State, last.entry)
  /\ last.index >= 0 /\ last.index <= getSize(State)
  /\ getSize(State) >= 2
  /\ log = <<>>

\* C15: addAt(entry, index) with index < 0 or index > size() throws, leaves
\* entries and selectedIndex as they were and delivers no event
C15_AddAtIndexOutOfRangeFails ==
  [][(/\ last'.op = "addAt"
      /\ last'.index < 0 \/ last'.index > getSize(State))
     => /\ last'.threw
        /\ entries' = entries
        /\ selectedIndex' = selectedIndex
        /\ log' = <<>>]_vars

\* C16: removeAt(index) with index < 0 or index >= size() throws, removes no
\* entry, leaves selectedIndex as it was and delivers neither
\* did-remove-entry nor did-change-entries
C16_RemoveAtIndexOutOfRangeFails ==
  [][(/\ last'.op = "removeAt"
      /\ last'.index < 0 \/ last'.index >= getSize(State))
     => /\ last'.threw
        /\ entries' = entries
        /\ selectedIndex' = selectedIndex
        /\ Removals(log') = <<>>
        /\ EventsNamed(log', "did-change-entries") = <<>>]_vars

\* C17: select(entry) with an entry the set does not include, and
\* selectAt(index) with an index outside [0, size) other than the current
\* selectedIndex, throw, leave entries and selectedIndex as they were and
\* deliver no event
C17_InvalidSelectionFails ==
  [][(\/ last'.op = "select" /\ ~includes(State, last'.entry)
      \/ /\ last'.op = "selectAt"
         /\ last'.index < 0 \/ last'.index >= getSize(State)
         /\ last'.index # selectedIndex)
     => /\ last'.threw
        /\ entries' = entries
        /\ selectedIndex' = selectedIndex
        /\ log' = <<>>]_vars

C17_Witness ==
  /\ last.op = "selectAt"
  /\ last.threw
  /\ last.index = getSize(State)
  /\ getSize(State) >= 2
  /\ selectedIndex = 1
  /\ log = <<>>

\* C18: the constructor throws when options.selectedIndex is -1 and there
\* are entries, or is below -1, or is >= the number of entries; a
\* construction that does not throw leaves selectedIndex = -1 exactly when
\* there are no entries and 0 <= selectedIndex < size otherwise
C18_ConstructorValidates ==
  last.op = "constructor"
  => /\ (/\ last.entry = "selectedIndex"
         /\ \/ last.index = -1 /\ Len(entries) # 0
            \/ last.index < -1
            \/ last.index >= Len(entries))
        => last.threw
     /\ ~last.threw
        => /\ getSize(State) = 0 <=> getSelectedIndex(State) = -1
           /\ getSize(State) > 0
              => getSelectedIndex(State) >= 0 /\ getSelectedIndex(State) < getSize(State)

\* C19: as long as destroy() has not been called on the set, isAlive() is
\* true and isDestroyed() is false, and alive is false only after destroy()
C19_AliveUntilDestroyed ==
  /\ ~subscriptionsDisposed
     => isAlive(State) = "true" /\ ~isDestroyed(State)
  /\ alive = "false" => subscriptionsDisposed

\* C20: on a non-empty set with a valid selection, addAt(entry, index) of
\* an entry the set does not include, with 0 <= index <= size(), returns
\* normally and leaves the selected entry the same: selectedIndex is one
\* more when index <= selectedIndex and the same otherwise
C20_AddAtKeepsSelectedEntry ==
  [][(/\ last'.op = "addAt"
      /\ getSize(State) > 0
      /\ selectedIndex >= 0 /\ selectedIndex < getSize(State)
      /\ ~includes(State, last'.entry)
      /\ last'.index >= 0 /\ last'.index <= getSize(State))
     => /\ ~last'.threw
        /\ getSelectedEntry(State)' = getSelectedEntry(State)
        /\ selectedIndex' = IF last'.index <= selectedIndex
                            THEN selectedIndex + 1
                            ELSE selectedIndex]_vars

\* an insertion at the selected index itself
C20_Witness ==
  /\ last.op = "addAt"
  /\ ~last.threw
  /\ last.index >= 0
  /\ At(entries, last.index) = last.entry
  /\ selectedIndex = last.index + 1
  /\ getSize(State) = 3
  /\ EventsNamed(log, "did-change-selected-entry") = <<>>
  /\ Len(EventsNamed(log, "did-change-entries")) = 1

\* C21: selectNext() and selectPrevious() return normally; on an empty set
\* they change nothing, and otherwise they leave the entries alone and set
\* selectedIndex to (selectedIndex + 1) mod size, respectively
\* (selectedIndex - 1 + size) mod size
C21_SelectNextPreviousWrap ==
  [][last'.op \in {"selectNext", "selectPrevious"}
     => /\ ~last'.threw
        /\ entries' = entries
        /\ selectedIndex' =
             IF getSize(State) = 0 THEN selectedIndex
             ELSE IF last'.op = "selectNext"
                  THEN (selectedIndex + 1) % getSize(State)
                  ELSE (selectedIndex - 1 + getSize(State)) % getSize(State)]_vars

\* selectNext() from the last of three entries has wrapped to index 0
C21_Witness ==
  /\ last.op = "selectNext"
  /\ Live
  /\ getSize(State) = 3
  /\ selectedIndex = 0
  /\ log = <<Event("did-change-selected-entry", At(entries, 0), -1, <<>>)>>

\* C22: selectAt(index) with the current selectedIndex returns normally,
\* also for -1 on an empty set, changes nothing and delivers no event
C22_SelectAtCurrentIsNoOp ==
  [][(last'.op = "selectAt" /\ last'.index = selectedIndex)
     => /\ ~last'.threw
        /\ entries' = entries
        /\ selectedIndex' = selectedIndex
        /\ transactionDepth' = transactionDepth
        /\ currentTransactionChangedEntries' = currentTransactionChangedEntries
        /\ log' = <<>>]_vars

C22_Witness ==
  /\ last.op = "selectAt"
  /\ last.index = -1
  /\ ~last.threw
  /\ Live
  /\ entries = <<>>
  /\ selectedIndex = -1
  /\ log = <<>>

\* C23: in every reachable state deserialize(serialize(set)) does not throw
\* and yields a set with the same entries in the same order and the same
\* selectedIndex
C23_SerializeRoundTrip ==
  /\ ~deserialize(serialize(State)).threw
  /\ deserialize(serialize(State)).entries = entries
  /\ deserialize(serialize(State)).selectedIndex = selectedIndex

\* C24: for a usingEachEntry(fn) subscription fn is called once for every
\* entry the set has when the caller subscribes and once for every entry
\* added later, and what fn returned for an entry is disposed of exactly once,
\* in the call that removes the entry from the set (destroy() included), and
\* in no other call
C24_UsingEachEntryCleansUpOnce ==
  [][/\ last'.op = "usingEachEntry" => observed' = entries
     /\ (using /\ last'.op \in {"add", "addAt"} /\ ~last'.threw)
        => observed' = <<last'.entry>>
     /\ \A e \in Entries :
          cleanups'[e] = IF using /\ includes(State, e) /\ ~includes(State', e)
                         THEN 1 ELSE 0]_vars

\* C25: the callback of an observeEachEntry subscription is called once for
\* each entry of the set, in order, when the caller subscribes, and from then
\* on, until the set is destroyed, once with the inserted entry in every add
\* or addAt that returns, and in no other call
C25_ObserveEachEntry ==
  [][/\ last'.op = "usingEachEntry" => observed' = entries
     /\ using
        => observed' = IF last'.op \in {"add", "addAt"} /\ ~last'.threw
                       THEN <<last'.entry>>
                       ELSE <<>>]_vars

\* the caller subscribed to a set of three entries
C25_Witness ==
  /\ last.op = "usingEachEntry"
  /\ using
  /\ Len(entries) = 3
  /\ observed = entries

\* C26: once destroy() has completed, no call on the set invokes a listener
\* of the caller again: no event is delivered, the did-destroy listener
\* included
C26_NoEventsAfterDestroy ==
  [][alive = "false"
     => /\ log' = <<>>
        /\ destroyedCalls' = destroyedCalls]_vars

\* an add after destroy() that inserted its entry and delivered nothing
C26_Witness ==
  /\ alive = "false"
  /\ last.op = "add"
  /\ ~last.threw
  /\ includes(State, last.entry)
  /\ log = <<>>
  /\ destroyedCalls = 1

\* C27: once destroy() has completed, add, addAt, removeAt, select and
\* selectAt throw, and the set stays empty with selectedIndex -1
C27_MutationAfterDestroyFails ==
  [][(/\ alive = "false"
      /\ last'.op \in {"add", "addAt", "removeAt", "select", "selectAt"})
     => /\ last'.threw
        /\ entries' = <<>>
        /\ selectedIndex' = -1]_vars

\* C28: remove(entry) with an entry the set does not include returns
\* normally, leaves entries, selectedIndex and the transaction state as they
\* were and delivers no event
C28_RemoveAbsentIsNoOp ==
  [][(last'.op = "remove" /\ ~includes(State, last'.entry))
     => /\ ~last'.threw
        /\ entries' = entries
        /\ selectedIndex' = selectedIndex
        /\ transactionDepth' = transactionDepth
        /\ currentTransactionChangedEntries' = currentTransactionChangedEntries
        /\ log' = <<>>]_vars

C28_Witness ==
  /\ last.op = "remove"
  /\ ~last.threw
  /\ Live
  /\ ~includes(State, last.entry)
  /\ getSize(State) = 2
  /\ log = <<>>

Distinct(arr) == \A i, j \in 1..Len(arr) : i # j => arr[i] # arr[j]

\* the elements of arr that occur in other, in the order they have in arr
Common(arr, other) ==
  SelectSeq(arr, LAMBDA e : \E i \in 1..Len(other) : other[i] = e)

\* C29: after every call, failing or not, no entry is in the set twice, and
\* the entries that were in the set before the call and are in it after the
\* call are in the same order as before
C29_DistinctAndOrderKept ==
  [][/\ Distinct(entries')
     /\ Common(entries, entries') = Common(entries', entries)]_vars

\* an entry was inserted at the front of two others
C29_Witness ==
  /\ last.op = "addAt"
  /\ ~last.threw
  /\ last.index = 0
  /\ Len(entries) = 3
  /\ entries[1] = last.entry
  /\ Distinct(entries)

\* C30: in every reachable state -1 <= selectedIndex <= size() - 1
C30_SelectedIndexInRange ==
  /\ selectedIndex \in Int
  /\ -1 <= selectedIndex
  /\ selectedIndex <= getSize(State) - 1

\* the selected last entry was removed and the selection moved down with
\* the size
C30_Witness ==
  /\ last.op = "removeAt"
  /\ Live
  /\ last.index = getSize(State)
  /\ getSize(State) = 2
  /\ selectedIndex = getSize(State) - 1
  /\ EventsNamed(log, "did-change-selected-entry") # <<>>

\* C31: whenever no call on the set is in progress (no transact(fn) of the
\* caller is open), transactionDepth is 0, also after a call that threw
C31_DepthZeroBetweenCalls ==
  stack = <<>> => transactionDepth = 0

\* the calls that complete a transaction of the set
TransactionOps ==
  {"add", "addAt", "remove", "removeAt", "select", "selectAt", "selectNext",
   "selectPrevious", "entry.destroy", "destroy", "transactEnd"}

\* the selected entry at the start of the top-level transaction the step
\* completes: the one transact(fn) of the caller recorded, or the current one
SelectedAtStart ==
  IF stack # <<>> THEN stack[1] ELSE getSelectedEntry(State)

\* C32: on a live set a top-level transaction (a call outside any
\* transact(fn) of the caller, or the outermost transact(fn) itself) that
\* returns delivers did-change-selected-entry once, with the new selected
\* entry, when the selected entry at its end is not the one at its start, and
\* not at all otherwise
C32_SelectedEntryChangedIffChanged ==
  [][(/\ Live
      /\ last'.top /\ ~last'.threw
      /\ last'.op \in TransactionOps)
     => EventsNamed(log', "did-change-selected-entry") =
          IF getSelectedEntry(State)' # SelectedAtStart
          THEN <<Event("did-change-selected-entry", getSelectedEntry(State)', -1, <<>>)>>
          ELSE <<>>]_vars

\* an insertion or a removal happened in the top-level transaction the step
\* completes: in the call itself, or inside the transact(fn) that ends
ChangedEntries ==
  IF stack # <<>> THEN currentTransactionChangedEntries ELSE entries' # entries

\* C33: on a live set a top-level transaction that returns delivers
\* did-change-entries once, with the entries at its end, when an insertion
\* or a removal happened inside it, and not at all otherwise; afterwards the
\* dirty flag is clear
C33_EntriesChangedOncePerTransaction ==
  [][(/\ Live
      /\ last'.top /\ ~last'.threw
      /\ last'.op \in TransactionOps)
     => /\ EventsNamed(log', "did-change-entries") =
             IF ChangedEntries
             THEN <<Event("did-change-entries", Undefined, -1, entries')>>
             ELSE <<>>
        /\ ~currentTransactionChangedEntries']_vars

\* C34: on a live set, whenever no call is in progress, the set is
\* subscribed to the destruction of exactly the entries that have
\* onDidDestroy and are in the set
C34_SubscribedIffIncluded ==
  (Live /\ stack = <<>>)
  => subs = {e \in HasOnDidDestroy : includes(State, e)}

\* C35: select, selectAt, selectNext and selectPrevious, whether they throw
\* or not, leave entries as it was and deliver no did-add-entry,
\* did-remove-entry or did-change-entries
C35_SelectionKeepsEntries ==
  [][last'.op \in {"select", "selectAt", "selectNext", "selectPrevious"}
     => /\ entries' = entries
        /\ \A i \in 1..Len(log') : log'[i].name = "did-change-selected-entry"]_vars

\* a top-level select on a live set that changed the selected entry
C35_Witness ==
  /\ last.op = "select"
  /\ ~last.threw
  /\ Live
  /\ Len(entries) = 3
  /\ log = <<Event("did-change-selected-entry", last.entry, -1, <<>>)>>

\* C36: whenever no call on the set is in progress, the entries an
\* observeEntries subscriber was last called with are the entries of the set
C36_ObservedSnapshotIsCurrent ==
  (observing /\ stack = <<>>) => seenEntries = getEntries(State)

====
